---- MODULE Spec2Model ----
(***************************************************************************)
(* Model of ghostunnel's tls.go: the reloadable certificate (type          *)
(* certificate, buildCertificate, getCertificate, reload) and the TLS      *)
(* configuration (certBundle, buildConfig).                                *)
(*                                                                         *)
(* Each reload call is a process that runs the statements of reload one    *)
(* library call at a time; getCertificate is a single atomic load.  The    *)
(* heap holds the tls.Certificate values the calls allocate (the escaping  *)
(* local certAndKey), and cached is the address stored in the struct.      *)
(* sync/atomic loads and stores are sequentially consistent, so the        *)
(* interleaving of the steps below is the behaviour of the Go program.     *)
(***************************************************************************)
EXTENDS Integers, Sequences, FiniteSets

(* ----------------------------- bounds ---------------------------------- *)

\* goroutines that call reload (goroutine 1 is the one in buildCertificate)
NumReloaders == 2
\* goroutines that call getCertificate (one per handshake)
NumReaders == 1
\* reload calls started in one behaviour, the initial one included
MaxReloads == 3
\* times the keystore file is replaced on disk
MaxWrites == 1

Procs == 1..NumReloaders
Readers == 1..NumReaders

(* ------------------------ the keystore file ---------------------------- *)

\* certificates by the name of their DER encoding: A and B are well formed,
\* X is a DER blob that x509.ParseCertificate rejects
Certs == {"A", "B", "X"}
Subject(c) == IF c = "A" THEN "server.example.com"
              ELSE IF c = "B" THEN "server2.example.com" ELSE ""
Expired(c) == c = "B"
Parseable(c) == c \in {"A", "B"}
\* the private key that corresponds to the public key of certificate c
KeyOf(c) == IF c = "A" THEN "kA" ELSE IF c = "B" THEN "kB" ELSE "kX"

\* a PKCS#12 container: the passphrase that encrypts it, whether it is well
\* formed, and the certificate and key inside
Container(pass, wellformed, cert, key) ==
    [exists |-> TRUE, pass |-> pass, wellformed |-> wellformed,
     cert |-> cert, key |-> key]
\* no file at keystorePath
NoFile == [exists |-> FALSE, pass |-> "", wellformed |-> FALSE,
           cert |-> "", key |-> ""]
\* the file contents the model writes: two valid identities (B expired, with
\* another subject), another passphrase, a malformed container, a key that
\* does not match, an unparseable leaf, and a missing file
FileContents ==
    { Container("secret", TRUE, "A", "kA"),
      Container("secret", TRUE, "B", "kB"),
      Container("wrong", TRUE, "A", "kA"),
      Container("secret", FALSE, "A", "kA"),
      Container("secret", TRUE, "A", "kB"),
      Container("secret", TRUE, "X", "kX"),
      NoFile }

(* --------------------------- library calls ----------------------------- *)

NoErr == ""
FileReadError == "FileReadError"
ContainerDecodeError == "ContainerDecodeError"
KeyPairMismatchError == "KeyPairMismatchError"
LeafParseError == "LeafParseError"

NoPem == [cert |-> "", key |-> ""]
NilLeaf == [Raw |-> "", Subject |-> "", Expired |-> FALSE]
\* the generation (reload call) each field of a tls.Certificate was written by
NoFrom == [Certificate |-> 0, PrivateKey |-> 0, Leaf |-> 0]
NilCertificate == [Certificate |-> <<>>, PrivateKey |-> "", Leaf |-> NilLeaf,
                   from |-> NoFrom]

\* ioutil.ReadFile(c.keystorePath)
ReadFile(file) ==
    IF file.exists THEN [err |-> NoErr, bytes |-> file]
    ELSE [err |-> FileReadError, bytes |-> NoFile]

\* pkcs12.ToPEM(keystoreBytes, c.keystorePass) followed by the
\* pem.EncodeToMemory loop: the certificate and key blocks of the container
ToPEM(bytes, pass) ==
    IF bytes.wellformed /\ bytes.pass = pass
    THEN [err |-> NoErr, pem |-> [cert |-> bytes.cert, key |-> bytes.key]]
    ELSE [err |-> ContainerDecodeError, pem |-> NoPem]

\* ParseCertificate followed by a rejection of leaves past their NotAfter
ParseCertificateFresh(der) ==
    IF Parseable(der) /\ ~Expired(der)
    THEN [err |-> NoErr,
          leaf |-> [Raw |-> der, Subject |-> Subject(der), Expired |-> Expired(der)]]
    ELSE [err |-> LeafParseError, leaf |-> NilLeaf]

\* x509.ParseCertificate(der): the parsed certificate, or the parse error
ParseCertificate(der) ==
    IF Parseable(der)
    THEN [err |-> NoErr,
          leaf |-> [Raw |-> der, Subject |-> Subject(der), Expired |-> Expired(der)]]
    ELSE [err |-> LeafParseError, leaf |-> NilLeaf]

\* X509KeyPair without the check that the key belongs to the certificate
X509KeyPairUnchecked(pem, g) ==
    IF ParseCertificate(pem.cert).err # NoErr
    THEN [err |-> ParseCertificate(pem.cert).err, val |-> NilCertificate]
    ELSE [err |-> NoErr,
          val |-> [Certificate |-> <<pem.cert>>, PrivateKey |-> pem.key,
                   Leaf |-> NilLeaf,
                   from |-> [Certificate |-> g, PrivateKey |-> g, Leaf |-> 0]]]

\* tls.X509KeyPair(pemBytes, pemBytes), called by generation g.  It parses
\* the first certificate itself with x509.ParseCertificate, to get at the
\* public key, and returns that call's error; then it tests the key against
\* the certificate.  On success: a fresh tls.Certificate with the chain and
\* the key, Leaf still nil
X509KeyPair(pem, g) ==
    IF ParseCertificate(pem.cert).err # NoErr
    THEN [err |-> ParseCertificate(pem.cert).err, val |-> NilCertificate]
    ELSE IF pem.key # KeyOf(pem.cert)
    THEN [err |-> KeyPairMismatchError, val |-> NilCertificate]
    ELSE [err |-> NoErr,
          val |-> [Certificate |-> <<pem.cert>>, PrivateKey |-> pem.key,
                   Leaf |-> NilLeaf,
                   from |-> [Certificate |-> g, PrivateKey |-> g, Leaf |-> 0]]]

\* a store that only fills an empty slot (a compare-and-swap against nil)
StorePointerOnce(old, new) == IF old = 0 THEN new ELSE old

\* a store that keeps the more recently allocated of the two values
StorePointerNewest(old, new) == IF new > old THEN new ELSE old

\* atomic.StorePointer(&c.cached, new): the value of the slot afterwards
StorePointer(old, new) == new

\* atomic.LoadPointer(&c.cached)
LoadPointer(slot) == slot

(* ---------------------- certBundle, buildConfig ------------------------ *)

TrustBundleReadError == "TrustBundleReadError"
TrustBundleParseError == "unable to parse ca-bundle"
PlatformTrustStoreError == "PlatformTrustStoreError"

\* crypto/tls and x509 constants used on lines 115-121
RequireAndVerifyClientCert == 4
VersionTLS12 == 771
TLS_ECDHE_RSA_WITH_AES_128_GCM_SHA256 == 49199
TLS_ECDHE_ECDSA_WITH_AES_128_GCM_SHA256 == 49195
TLS_ECDHE_RSA_WITH_AES_256_GCM_SHA384 == 49200
TLS_ECDHE_ECDSA_WITH_AES_256_GCM_SHA384 == 49196

\* a *x509.CertPool: its certificates, and whether it is the platform's pool
NilPool == [nil |-> TRUE, system |-> FALSE, certs |-> {}]
SystemPool == [nil |-> FALSE, system |-> TRUE, certs |-> {"platformRoot"}]
\* the platform's pool on a host where no root certificate is found
EmptySystemPool == [nil |-> FALSE, system |-> TRUE, certs |-> {}]
FilePool(certs) == [nil |-> FALSE, system |-> FALSE, certs |-> certs]

\* PEM blocks in a ca-bundle file: certificates, and text that is none
PemBlocks == {"root1", "root2", "junk"}
\* blocks in a ca-bundle file
MaxBlocks == 3
RECURSIVE SeqsUpTo(_)
SeqsUpTo(n) ==
    IF n = 0 THEN { <<>> }
    ELSE LET shorter == SeqsUpTo(n - 1) IN
         shorter \cup { Append(s, b) : s \in { t \in shorter : Len(t) = n - 1 },
                                       b \in PemBlocks }
NoCAFile == [exists |-> FALSE, blocks |-> <<>>]
\* what can be on disk at "ca.pem": nothing, or a file of up to MaxBlocks blocks
CAFileContents ==
    {NoCAFile} \cup { [exists |-> TRUE, blocks |-> s] : s \in SeqsUpTo(MaxBlocks) }
\* the values of --cacert: none, the file, a path where no file is
CAPaths == {"", "ca.pem", "missing.pem"}
\* the file system seen from certBundle
CAFileAt(path, file) == IF path = "ca.pem" THEN file ELSE NoCAFile
\* what x509.SystemCertPool() can return on a platform: the pool of the
\* host's roots; an error (a platform without support, or a failed load);
\* and, on a host where no root certificate is found, no error with an
\* empty pool or, with the Go releases that return (nil, nil) there, with
\* a nil pool
SystemCertPoolResults ==
    { [err |-> NoErr, pool |-> SystemPool],
      [err |-> NoErr, pool |-> EmptySystemPool],
      [err |-> NoErr, pool |-> NilPool],
      [err |-> PlatformTrustStoreError, pool |-> NilPool] }

\* (*CertPool).AppendCertsFromPEM: the certificates among the blocks; the
\* call reports ok when it added at least one
AppendCertsFromPEM(blocks) ==
    { blocks[i] : i \in { j \in 1..Len(blocks) : blocks[j] # "junk" } }

\* certBundle without the test of what AppendCertsFromPEM reports
certBundleEmptyOk(caBundlePath, file, sys) ==
    IF caBundlePath = ""
    THEN [err |-> sys.err, pool |-> sys.pool, read |-> {}]
    ELSE IF ~CAFileAt(caBundlePath, file).exists
         THEN [err |-> TrustBundleReadError, pool |-> NilPool, read |-> {caBundlePath}]
    ELSE [err |-> NoErr,
          pool |-> FilePool(AppendCertsFromPEM(CAFileAt(caBundlePath, file).blocks)),
          read |-> {caBundlePath}]

\* lines 83-99; file is what is on disk at "ca.pem", sys the outcome of
\* x509.SystemCertPool() on this platform; read lists the paths it read
certBundle(caBundlePath, file, sys) ==
    IF caBundlePath = ""
    THEN [err |-> sys.err, pool |-> sys.pool, read |-> {}]
    ELSE IF ~CAFileAt(caBundlePath, file).exists
         THEN [err |-> TrustBundleReadError, pool |-> NilPool, read |-> {caBundlePath}]
    ELSE LET certs == AppendCertsFromPEM(CAFileAt(caBundlePath, file).blocks) IN
         IF certs = {}
         THEN [err |-> TrustBundleParseError, pool |-> NilPool, read |-> {caBundlePath}]
         ELSE [err |-> NoErr, pool |-> FilePool(certs), read |-> {caBundlePath}]

\* a nil *tls.Config
NilConfig == [nil |-> TRUE, RootCAs |-> NilPool, ClientCAs |-> NilPool,
              PreferServerCipherSuites |-> FALSE, ClientAuth |-> 0,
              MinVersion |-> 0, CipherSuites |-> <<>>,
              Certificates |-> <<>>, GetCertificate |-> ""]

\* the literal without MinVersion and with the client CAs left out
ConfigLiteralLax(caBundle) ==
    [nil |-> FALSE, RootCAs |-> caBundle, ClientCAs |-> NilPool,
     PreferServerCipherSuites |-> TRUE,
     ClientAuth |-> RequireAndVerifyClientCert,
     MinVersion |-> 0,
     CipherSuites |-> << TLS_ECDHE_RSA_WITH_AES_128_GCM_SHA256,
                         TLS_ECDHE_ECDSA_WITH_AES_128_GCM_SHA256,
                         TLS_ECDHE_RSA_WITH_AES_256_GCM_SHA384,
                         TLS_ECDHE_ECDSA_WITH_AES_256_GCM_SHA384 >>,
     Certificates |-> <<>>, GetCertificate |-> ""]

\* lines 108-123: the fields the literal sets; the others keep their zero value
ConfigLiteral(caBundle) ==
    [nil |-> FALSE, RootCAs |-> caBundle, ClientCAs |-> caBundle,
     PreferServerCipherSuites |-> TRUE,
     ClientAuth |-> RequireAndVerifyClientCert,
     MinVersion |-> VersionTLS12,
     CipherSuites |-> << TLS_ECDHE_RSA_WITH_AES_128_GCM_SHA256,
                         TLS_ECDHE_ECDSA_WITH_AES_128_GCM_SHA256,
                         TLS_ECDHE_RSA_WITH_AES_256_GCM_SHA384,
                         TLS_ECDHE_ECDSA_WITH_AES_256_GCM_SHA384 >>,
     Certificates |-> <<>>, GetCertificate |-> ""]

\* buildConfig that goes on with a nil bundle when certBundle failed
buildConfigSwallow(caBundlePath, file, sys) ==
    LET b == certBundle(caBundlePath, file, sys) IN
    [config |-> ConfigLiteral(b.pool), err |-> NoErr, bundle |-> b]

\* lines 102-124
buildConfig(caBundlePath, file, sys) ==
    LET b == certBundle(caBundlePath, file, sys) IN
    IF b.err # NoErr THEN [config |-> NilConfig, err |-> b.err, bundle |-> b]
    ELSE [config |-> ConfigLiteral(b.pool), err |-> NoErr, bundle |-> b]

(* ------------------------------ state ---------------------------------- *)

VARIABLES
    keystorePath,   \* certificate.keystorePath
    keystorePass,   \* certificate.keystorePass
    cached,         \* certificate.cached: a heap address, 0 is nil
    heap,           \* the tls.Certificate values allocated by reload calls
    keystoreFile,   \* the contents of the file at keystorePath
    writes,         \* how often the file was replaced
    handle,         \* who holds the *certificate: see Init
    rl,             \* the reload call of each goroutine
    calls,          \* reload calls started so far (the generation counter)
    published,      \* addresses in the order their StorePointer ran
    decoded,        \* for each heap address, the file contents it was decoded from
    returned,       \* the reload calls (generations) that have returned
    res,            \* the last getCertificate result of each reader
    caFile,         \* the contents of the ca-bundle file "ca.pem"
    cfg             \* the last buildConfig call: its argument and its result

vars == <<keystorePath, keystorePass, cached, heap, keystoreFile, writes,
          handle, rl, calls, published, decoded, returned, res, caFile, cfg>>

\* a goroutine's reload call: where it is, its locals (keystoreBytes,
\* pemBytes, certAndKey, err), and what its caller knows of it: its number
\* gen, the slot, its bundle and the number of publishes at entry, and the
\* position of its own publish, and the stages it has run, in order.  After
\* the return pc is "idle" and the record keeps the outcome of the call
\* (the bytes it read included) until the next one.
Idle == [pc |-> "idle", gen |-> 0, keystoreBytes |-> NoFile, pemBytes |-> NoPem,
         certAndKey |-> 0, err |-> NoErr, startCached |-> 0,
         startBundle |-> NilCertificate, startPubs |-> 0, pubIdx |-> 0,
         ran |-> <<>>, overlapped |-> FALSE]

\* a getCertificate call: what it returned (ptr, err), the value ptr pointed
\* to then, and the history at the call: the last published address, the
\* reload calls started and returned, and who held the store
NoResult == [called |-> FALSE, ptr |-> 0, err |-> NoErr, seen |-> NilCertificate,
             cur |-> 0, calls |-> 0, returned |-> {}, handle |-> ""]

NoConfigCall == [called |-> FALSE, path |-> "",
                 sys |-> [err |-> NoErr, pool |-> NilPool],
                 bundle |-> [err |-> NoErr, pool |-> NilPool, read |-> {}],
                 config |-> NilConfig, err |-> NoErr]

\* the value a *tls.Certificate points to (nil has no fields)
Deref(h, a) == IF a = 0 THEN NilCertificate ELSE h[a]

Last(s) == IF s = <<>> THEN 0 ELSE s[Len(s)]
\* position of address a in the publish order, 0 if it was never published
PubIdx(a) == IF \E i \in 1..Len(published) : published[i] = a
             THEN CHOOSE i \in 1..Len(published) : published[i] = a
             ELSE 0

\* position in the publish order of the bundle of reload call g, 0 if none
PubIdxOfGen(g) ==
    IF \E i \in 1..Len(published) : heap[published[i]].from.Certificate = g
    THEN CHOOSE i \in 1..Len(published) : heap[published[i]].from.Certificate = g
    ELSE 0

\* a fresh call of reload, entered with the slot and the history as they are
Enter(g) == [Idle EXCEPT !.pc = "read", !.gen = g, !.startCached = cached,
                         !.startBundle = Deref(heap, cached),
                         !.startPubs = Len(published),
                         !.overlapped = \E q \in Procs : rl[q].pc # "idle"]

\* the store right after line 39, its keystore file holding file: h says who
\* holds the *certificate.  "building": buildCertificate has run line 39 and
\* goroutine 1 is inside its call of reload; nobody else holds the pointer
\* until it is returned ("built") or dropped ("failed").  "none":
\* buildCertificate has not been called, there is no store.
StoreInit(file, h) ==
    /\ keystorePath = "keystore.p12"
    /\ keystorePass = "secret"
    /\ cached = 0
    /\ heap = <<>>
    /\ keystoreFile = file
    /\ writes = 0
    /\ handle = h
    /\ calls = IF h = "building" THEN 1 ELSE 0
    /\ rl = [p \in Procs |-> IF h = "building" /\ p = 1
                             THEN [Idle EXCEPT !.pc = "read", !.gen = 1]
                             ELSE Idle]
    /\ published = <<>>
    /\ decoded = <<>>
    /\ returned = {}
    /\ res = [r \in Readers |-> NoResult]

\* the certificate store as buildCertificate makes it, on any keystore file
Init ==
    /\ \E file \in FileContents : StoreInit(file, "building")
    /\ caFile = NoCAFile
    /\ cfg = NoConfigCall

\* callers hold the store once buildCertificate has returned it
Usable == handle = "built"

(* ------------------------------ reload --------------------------------- *)

\* a goroutine that holds the store calls c.reload()
CallReload(p) ==
    /\ Usable
    /\ rl[p].pc = "idle"
    /\ calls < MaxReloads
    /\ calls' = calls + 1
    /\ rl' = [rl EXCEPT ![p] = Enter(calls + 1)]
    /\ UNCHANGED <<keystorePath, keystorePass, cached, heap, keystoreFile,
                   writes, handle, published, decoded, returned, res, caFile, cfg>>

\* lines 54-57 with a read failure that also unsets the slot
ReloadReadFileInvalidating(p) ==
    /\ rl[p].pc = "read"
    /\ LET r == ReadFile(keystoreFile) IN
       /\ rl' = [rl EXCEPT ![p] =
                   IF r.err # NoErr
                   THEN [@ EXCEPT !.ran = Append(@, "read"), !.pc = "done", !.err = r.err]
                   ELSE [@ EXCEPT !.ran = Append(@, "read"), !.pc = "topem",
                                  !.keystoreBytes = r.bytes]]
       /\ cached' = IF r.err # NoErr THEN 0 ELSE cached
    /\ UNCHANGED <<keystorePath, keystorePass, heap, keystoreFile,
                   writes, handle, calls, published, decoded, returned, res, caFile, cfg>>

\* lines 54-57 with the bytes of the first decode kept and used again
ReloadReadFileStale(p) ==
    /\ rl[p].pc = "read"
    /\ LET r == IF decoded # <<>> THEN [err |-> NoErr, bytes |-> decoded[1]]
                ELSE ReadFile(keystoreFile) IN
       rl' = [rl EXCEPT ![p] =
                IF r.err # NoErr
                THEN [@ EXCEPT !.ran = Append(@, "read"), !.pc = "done", !.err = r.err]
                ELSE [@ EXCEPT !.ran = Append(@, "read"), !.pc = "topem",
                               !.keystoreBytes = r.bytes]]
    /\ UNCHANGED <<keystorePath, keystorePass, cached, heap, keystoreFile,
                   writes, handle, calls, published, decoded, returned, res, caFile, cfg>>

\* lines 54-57
ReloadReadFile(p) ==
    /\ rl[p].pc = "read"
    /\ LET r == ReadFile(keystoreFile) IN
       rl' = [rl EXCEPT ![p] =
                IF r.err # NoErr
                THEN [@ EXCEPT !.ran = Append(@, "read"), !.pc = "done", !.err = r.err]
                ELSE [@ EXCEPT !.ran = Append(@, "read"), !.pc = "topem",
                               !.keystoreBytes = r.bytes]]
    /\ UNCHANGED <<keystorePath, keystorePass, cached, heap, keystoreFile,
                   writes, handle, calls, published, decoded, returned, res, caFile, cfg>>

\* lines 59-62 with a failure that also clears the slot
ReloadToPEMInvalidating(p) ==
    /\ rl[p].pc = "topem"
    /\ LET r == ToPEM(rl[p].keystoreBytes, keystorePass) IN
       /\ rl' = [rl EXCEPT ![p] =
                   IF r.err # NoErr
                   THEN [@ EXCEPT !.ran = Append(@, "topem"), !.pc = "done", !.err = r.err]
                   ELSE [@ EXCEPT !.ran = Append(@, "topem"), !.pc = "keypair", !.pemBytes = r.pem]]
       /\ cached' = IF r.err # NoErr THEN 0 ELSE cached
    /\ UNCHANGED <<keystorePath, keystorePass, heap, keystoreFile,
                   writes, handle, calls, published, decoded, returned, res, caFile, cfg>>

\* lines 59-67 without the test of ToPEM's error
ReloadToPEMUnchecked(p) ==
    /\ rl[p].pc = "topem"
    /\ LET r == ToPEM(rl[p].keystoreBytes, keystorePass) IN
       rl' = [rl EXCEPT ![p] =
                [@ EXCEPT !.ran = Append(@, "topem"), !.pc = "keypair", !.pemBytes = r.pem]]
    /\ UNCHANGED <<keystorePath, keystorePass, cached, heap, keystoreFile,
                   writes, handle, calls, published, decoded, returned, res, caFile, cfg>>

\* lines 59-67
ReloadToPEM(p) ==
    /\ rl[p].pc = "topem"
    /\ LET r == ToPEM(rl[p].keystoreBytes, keystorePass) IN
       rl' = [rl EXCEPT ![p] =
                IF r.err # NoErr
                THEN [@ EXCEPT !.ran = Append(@, "topem"), !.pc = "done", !.err = r.err]
                ELSE [@ EXCEPT !.ran = Append(@, "topem"), !.pc = "keypair", !.pemBytes = r.pem]]
    /\ UNCHANGED <<keystorePath, keystorePass, cached, heap, keystoreFile,
                   writes, handle, calls, published, decoded, returned, res, caFile, cfg>>

\* lines 69-72 with the store of line 79 moved up, before Leaf is set
ReloadX509KeyPairPublishing(p) ==
    /\ rl[p].pc = "keypair"
    /\ LET r == X509KeyPair(rl[p].pemBytes, rl[p].gen) IN
       IF r.err # NoErr
       THEN /\ rl' = [rl EXCEPT ![p] = [@ EXCEPT !.ran = Append(@, "keypair"),
                                                 !.pc = "done", !.err = r.err,
                                                 !.pemBytes = NoPem]]
            /\ UNCHANGED <<heap, decoded, cached>>
       ELSE /\ heap' = Append(heap, r.val)
            /\ decoded' = Append(decoded, rl[p].keystoreBytes)
            /\ cached' = Len(heap) + 1
            /\ rl' = [rl EXCEPT ![p] = [@ EXCEPT !.ran = Append(@, "keypair"),
                                                 !.pc = "leaf",
                                                 !.pemBytes = NoPem,
                                                 !.certAndKey = Len(heap) + 1]]
    /\ UNCHANGED <<keystorePath, keystorePass, keystoreFile,
                   writes, handle, calls, published, returned, res, caFile, cfg>>

\* lines 69-72: certAndKey is a local whose address escapes on line 79, so
\* every call has its own heap cell
ReloadX509KeyPair(p) ==
    /\ rl[p].pc = "keypair"
    /\ LET r == X509KeyPair(rl[p].pemBytes, rl[p].gen) IN
       IF r.err # NoErr
       THEN /\ rl' = [rl EXCEPT ![p] = [@ EXCEPT !.ran = Append(@, "keypair"),
                                                 !.pc = "done", !.err = r.err,
                                                 !.pemBytes = NoPem]]
            /\ UNCHANGED <<heap, decoded>>
       ELSE /\ heap' = Append(heap, r.val)
            /\ decoded' = Append(decoded, rl[p].keystoreBytes)
            /\ rl' = [rl EXCEPT ![p] = [@ EXCEPT !.ran = Append(@, "keypair"),
                                                 !.pc = "leaf",
                                                 !.pemBytes = NoPem,
                                                 !.certAndKey = Len(heap) + 1]]
    /\ UNCHANGED <<keystorePath, keystorePass, cached, keystoreFile,
                   writes, handle, calls, published, returned, res, caFile, cfg>>

\* lines 74-77: the assignment to certAndKey.Leaf comes before the test of
\* the error.  X509KeyPair has parsed the same bytes, so the error return of
\* lines 75-77 is there in the code and never taken
ReloadParseCertificate(p) ==
    /\ rl[p].pc = "leaf"
    /\ LET a == rl[p].certAndKey
           r == ParseCertificate(heap[a].Certificate[1]) IN
       /\ heap' = [heap EXCEPT ![a] =
                     [@ EXCEPT !.Leaf = r.leaf,
                               !.from = [@ EXCEPT !.Leaf =
                                           IF r.err = NoErr THEN rl[p].gen ELSE 0]]]
       /\ rl' = [rl EXCEPT ![p] =
                   IF r.err # NoErr
                   THEN [@ EXCEPT !.ran = Append(@, "leaf"), !.pc = "done", !.err = r.err]
                   ELSE [@ EXCEPT !.ran = Append(@, "leaf"), !.pc = "publish"]]
    /\ UNCHANGED <<keystorePath, keystorePass, cached, keystoreFile,
                   writes, handle, calls, published, decoded, returned, res, caFile, cfg>>

\* line 79 as a copy of the new value into the struct the slot already
\* points to, instead of a replacement of the pointer
ReloadStorePointerInPlace(p) ==
    /\ rl[p].pc = "publish"
    /\ cached' = IF cached = 0 THEN rl[p].certAndKey ELSE cached
    /\ heap' = IF cached = 0 THEN heap
               ELSE [heap EXCEPT ![cached] = heap[rl[p].certAndKey]]
    /\ published' = Append(published, cached')
    /\ rl' = [rl EXCEPT ![p] = [@ EXCEPT !.ran = Append(@, "publish"),
                                         !.pc = "done", !.err = NoErr,
                                         !.pubIdx = Len(published) + 1]]
    /\ UNCHANGED <<keystorePath, keystorePass, keystoreFile,
                   writes, handle, calls, decoded, returned, res, caFile, cfg>>

\* line 79: the pointer to the local certAndKey replaces the slot's value
ReloadStorePointer(p) ==
    /\ rl[p].pc = "publish"
    /\ cached' = StorePointer(cached, rl[p].certAndKey)
    /\ published' = Append(published, rl[p].certAndKey)
    /\ rl' = [rl EXCEPT ![p] = [@ EXCEPT !.ran = Append(@, "publish"),
                                         !.pc = "done", !.err = NoErr,
                                         !.pubIdx = Len(published) + 1]]
    /\ UNCHANGED <<keystorePath, keystorePass, heap, keystoreFile,
                   writes, handle, calls, decoded, returned, res, caFile, cfg>>

\* buildCertificate returning the store whatever reload returned
buildCertificateReturnAlways(err) == "built"

\* lines 41-44: what buildCertificate does with the store when its reload
\* call returned err: it hands out the pointer, or nil and the error
buildCertificateReturn(err) == IF err # NoErr THEN "failed" ELSE "built"

\* line 80 and the error returns: the call is over and its caller goes on;
\* the caller inside buildCertificate returns in the same step
ReloadReturn(p) ==
    /\ rl[p].pc = "done"
    /\ returned' = returned \cup {rl[p].gen}
    /\ handle' = IF handle = "building" THEN buildCertificateReturn(rl[p].err)
                 ELSE handle
    /\ rl' = [rl EXCEPT ![p] = [@ EXCEPT !.pc = "idle"]]
    /\ UNCHANGED <<keystorePath, keystorePass, cached, heap, keystoreFile,
                   writes, calls, published, decoded, res, caFile, cfg>>

(* --------------------------- getCertificate ---------------------------- *)

\* lines 48-50: the pair (certificate, error) returned for the slot value
getCertificateResult(slot) == [ptr |-> LoadPointer(slot), err |-> NoErr]

\* getCertificate behind a lock that reload holds from entry to return
getCertificateLocked(r) ==
    /\ Usable
    /\ \A p \in Procs : rl[p].pc = "idle"
    /\ LET out == getCertificateResult(cached) IN
       res' = [res EXCEPT ![r] =
                 [called |-> TRUE, ptr |-> out.ptr, err |-> out.err,
                  seen |-> Deref(heap, out.ptr), cur |-> Last(published),
                  calls |-> calls, returned |-> returned, handle |-> handle]]
    /\ UNCHANGED <<keystorePath, keystorePass, cached, heap, keystoreFile,
                   writes, handle, rl, calls, published, decoded, returned, caFile, cfg>>

\* a handshake goroutine that holds the store calls c.getCertificate(hello)
getCertificate(r) ==
    /\ Usable
    /\ LET out == getCertificateResult(cached) IN
       res' = [res EXCEPT ![r] =
                 [called |-> TRUE, ptr |-> out.ptr, err |-> out.err,
                  seen |-> Deref(heap, out.ptr), cur |-> Last(published),
                  calls |-> calls, returned |-> returned, handle |-> handle]]
    /\ UNCHANGED <<keystorePath, keystorePass, cached, heap, keystoreFile,
                   writes, handle, rl, calls, published, decoded, returned, caFile, cfg>>

(* ----------------------------- environment ----------------------------- *)

\* the operator replaces (or removes) the keystore file
WriteFile(c) ==
    /\ writes < MaxWrites
    /\ c # keystoreFile
    /\ keystoreFile' = c
    /\ writes' = writes + 1
    /\ UNCHANGED <<keystorePath, keystorePass, cached, heap, handle, rl,
                   calls, published, decoded, returned, res, caFile, cfg>>

Next ==
    \/ \E p \in Procs : CallReload(p)
    \/ \E p \in Procs : ReloadReadFile(p)
    \/ \E p \in Procs : ReloadToPEM(p)
    \/ \E p \in Procs : ReloadX509KeyPair(p)
    \/ \E p \in Procs : ReloadParseCertificate(p)
    \/ \E p \in Procs : ReloadStorePointer(p)
    \/ \E p \in Procs : ReloadReturn(p)
    \/ \E r \in Readers : getCertificate(r)
    \/ \E c \in FileContents : WriteFile(c)

Spec == Init /\ [][Next]_vars

(* ------------------------- the TLS configuration ----------------------- *)

\* main calls buildConfig(caBundlePath)
CallBuildConfig(path, sys) ==
    /\ LET out == buildConfig(path, caFile, sys) IN
       cfg' = [called |-> TRUE, path |-> path, sys |-> sys,
               bundle |-> out.bundle, config |-> out.config, err |-> out.err]
    /\ UNCHANGED <<keystorePath, keystorePass, cached, heap, keystoreFile,
                   writes, handle, rl, calls, published, decoded, returned, res, caFile>>

\* buildConfig on any ca-bundle file; it takes no store, and none is made
InitPolicy ==
    /\ StoreInit(NoFile, "none")
    /\ caFile \in CAFileContents
    /\ cfg = NoConfigCall

NextPolicy ==
    \E path \in CAPaths, sys \in SystemCertPoolResults : CallBuildConfig(path, sys)

SpecPolicy == InitPolicy /\ [][NextPolicy]_vars

(* ------------------------------ properties ----------------------------- *)

InFlight(p) == rl[p].pc \in {"read", "topem", "keypair", "leaf", "publish"}
\* the call of goroutine p is over (its outcome is still in rl[p])
Over(p) == rl[p].gen # 0 /\ rl[p].pc \in {"done", "idle"}

\* all three fields of bundle b were written by one reload call, Leaf included
Coherent(b) ==
    /\ b.from.Certificate # 0
    /\ b.from.PrivateKey = b.from.Certificate
    /\ b.from.Leaf = b.from.Certificate
    /\ b.Leaf # NilLeaf
    /\ b.Leaf.Raw = b.Certificate[1]

\* C1: whatever the interleaving of getCertificate calls and reload calls,
\* a bundle returned by getCertificate has its chain, key and leaf written by
\* one reload call whose publish step ran, when it is returned and later
C1_ConsistentRead ==
    \A r \in Readers :
        res[r].called /\ res[r].ptr # 0 =>
            /\ Coherent(res[r].seen)
            /\ Coherent(heap[res[r].ptr])
            /\ PubIdx(res[r].ptr) # 0

\* a reader got a bundle while a reload call that started before the read
\* holds its own candidate and has not published it yet
C1_Witness ==
    \E r \in Readers, p \in Procs :
        /\ res[r].called /\ res[r].ptr # 0
        /\ rl[p].pc \in {"leaf", "publish"}
        /\ res[r].calls >= rl[p].gen
        /\ rl[p].certAndKey # res[r].ptr

\* C2: a reload call that ends without publishing returns an error, and a
\* call that returned an error has published nothing; as long as no other
\* call has published since it started, the slot and what getCertificate
\* returns are the bundle that was there when it started
C2_FailedReloadKeepsBundle ==
    \A p \in Procs :
        Over(p) =>
            /\ rl[p].pubIdx = 0 => rl[p].err # NoErr
            /\ rl[p].err # NoErr =>
                 /\ rl[p].pubIdx = 0
                 /\ Len(published) = rl[p].startPubs =>
                      /\ cached = rl[p].startCached
                      /\ getCertificateResult(cached).ptr = rl[p].startCached
                      /\ Deref(heap, cached) = rl[p].startBundle

\* a reload of a store that had a bundle failed and returned, and a
\* getCertificate call made after the return got the old bundle
C2_Witness ==
    \E p \in Procs, r \in Readers :
        /\ rl[p].pc = "idle" /\ rl[p].gen # 0 /\ rl[p].err # NoErr
        /\ rl[p].startCached # 0
        /\ Len(published) = rl[p].startPubs
        /\ res[r].called /\ rl[p].gen \in res[r].returned
        /\ res[r].ptr = rl[p].startCached

\* C3: a getCertificate call made after a reload call returned nil gets
\* the bundle of that call or one published after it
C3_ReadAfterReload ==
    \A r \in Readers :
        res[r].called =>
            \A g \in res[r].returned :
                PubIdxOfGen(g) # 0 => PubIdx(res[r].ptr) >= PubIdxOfGen(g)

\* a read after the return of a reload that replaced an earlier bundle
C3_Witness ==
    \E r \in Readers :
        /\ res[r].called
        /\ \E g \in res[r].returned :
              PubIdxOfGen(g) >= 2 /\ PubIdx(res[r].ptr) = PubIdxOfGen(g)

\* C5: when the initial reload in buildCertificate fails the slot stays
\* unset, the error is the result and nobody gets the store; a store that
\* buildCertificate returned holds a complete bundle
C5_BuildAllOrNothing ==
    /\ handle = "failed" =>
          /\ cached = 0 /\ published = <<>>
          /\ rl[1].err # NoErr
          /\ calls = 1
          /\ \A r \in Readers : ~res[r].called
    /\ handle = "building" => \A r \in Readers : ~res[r].called
    /\ handle = "built" =>
          /\ 1 \in returned
          /\ cached # 0
          /\ Coherent(heap[cached])

\* buildCertificate failed on a keystore it could not decrypt
C5_Witness ==
    handle = "failed" /\ rl[1].err = ContainerDecodeError /\ rl[1].pc = "idle"

\* the bundle at address a comes from a container that decrypted, with the
\* key of its leaf and the leaf parsed
ValidBundle(a) ==
    LET b == heap[a]
        c == decoded[a] IN
    /\ c.exists /\ c.wellformed /\ c.pass = keystorePass
    /\ b.Certificate = <<c.cert>> /\ b.PrivateKey = c.key
    /\ b.PrivateKey = KeyOf(b.Certificate[1])
    /\ Parseable(b.Certificate[1])
    /\ b.Leaf # NilLeaf /\ b.Leaf.Raw = b.Certificate[1]
    /\ b.Leaf.Subject = Subject(b.Certificate[1])

\* C6: the slot is unset only while nothing was published, and otherwise
\* holds, as every published address does, a valid bundle
C6_PublishedIsValid ==
    /\ cached = 0 => published = <<>>
    /\ cached # 0 => cached \in 1..Len(heap) /\ ValidBundle(cached)
    /\ \A i \in 1..Len(published) : ValidBundle(published[i])

\* a store with a bundle, and a reload call that read a container whose
\* key is not the leaf's and returned the error without a candidate
C6_Witness ==
    /\ cached # 0 /\ ValidBundle(cached)
    /\ \E p \in Procs :
          /\ rl[p].pc = "idle" /\ rl[p].err = KeyPairMismatchError
          /\ rl[p].keystoreBytes.key # KeyOf(rl[p].keystoreBytes.cert)
          /\ rl[p].certAndKey = 0
          /\ rl[p].startCached = cached

\* C7: the publish steps are in one order, each of a candidate that some
\* reload call decoded, no candidate twice, and the slot holds the candidate
\* of the last publish step
C7_LastPublishWins ==
    /\ cached = Last(published)
    /\ \A i \in 1..Len(published) :
          /\ published[i] \in 1..Len(heap)
          /\ heap[published[i]].from.Certificate \in 1..calls
          /\ \A j \in 1..Len(published) : i # j => published[i] # published[j]

\* two overlapping reload calls both returned nil; the one that allocated
\* its candidate first published last, and the slot holds its candidate
C7_Witness ==
    \E p \in Procs, q \in Procs :
        /\ p # q
        /\ rl[p].pc = "idle" /\ rl[q].pc = "idle"
        /\ rl[p].pubIdx # 0 /\ rl[q].pubIdx # 0
        /\ rl[p].startPubs < rl[q].pubIdx /\ rl[q].startPubs < rl[p].pubIdx
        /\ rl[p].certAndKey < rl[q].certAndKey
        /\ rl[p].pubIdx > rl[q].pubIdx
        /\ cached = rl[p].certAndKey

\* C8: whoever holds the store can run getCertificate in any state, also
\* with reload calls in flight, and a reload call at its publish step can
\* run it whatever the readers do
C8_NeverBlocked ==
    /\ Usable => \A r \in Readers : ENABLED getCertificate(r)
    /\ \A p \in Procs : rl[p].pc = "publish" => ENABLED ReloadStorePointer(p)

\* a getCertificate call returned while a reload call that started before
\* it sits before its file read or its decode
C8_Witness ==
    \E r \in Readers, p \in Procs :
        /\ rl[p].pc \in {"read", "topem"}
        /\ res[r].called
        /\ res[r].calls >= rl[p].gen

PolicyReturned == cfg.called /\ cfg.err = NoErr

\* C9: the policy buildConfig returns has the store's getCertificate as
\* its certificate-selection callback
C9_CallbackBound ==
    PolicyReturned => cfg.config.GetCertificate = "getCertificate"

CipherAllowList ==
    { TLS_ECDHE_RSA_WITH_AES_128_GCM_SHA256,
      TLS_ECDHE_ECDSA_WITH_AES_128_GCM_SHA256,
      TLS_ECDHE_RSA_WITH_AES_256_GCM_SHA384,
      TLS_ECDHE_ECDSA_WITH_AES_256_GCM_SHA384 }

\* C10: every policy buildConfig returns requires and verifies client
\* certificates, has TLS 1.2 as its minimum version, prefers the server's
\* cipher order, allows exactly the four ECDHE AES-GCM suites, and uses the
\* trust bundle certBundle returned as client CAs and as root CAs
C10_PolicyFields ==
    PolicyReturned =>
        /\ cfg.config.ClientAuth = RequireAndVerifyClientCert
        /\ cfg.config.MinVersion = VersionTLS12
        /\ cfg.config.PreferServerCipherSuites
        /\ Len(cfg.config.CipherSuites) = Cardinality(CipherAllowList)
        /\ { cfg.config.CipherSuites[i] : i \in 1..Len(cfg.config.CipherSuites) }
              = CipherAllowList
        /\ cfg.config.ClientCAs = cfg.config.RootCAs
        /\ cfg.config.RootCAs = cfg.bundle.pool

\* a policy built on a ca-bundle file that holds junk next to a certificate
C10_Witness ==
    /\ PolicyReturned
    /\ cfg.path = "ca.pem"
    /\ \E i \in 1..Len(caFile.blocks) : caFile.blocks[i] = "junk"

\* the certificates among the blocks of the file at path
CertBlocks(path) ==
    LET f == CAFileAt(path, caFile) IN
    { f.blocks[i] : i \in { j \in 1..Len(f.blocks) : f.blocks[j] \in {"root1", "root2"} } }

\* C11: with an empty path certBundle returns what the platform's trust
\* store call returned and reads no file; with a path it returns a read
\* error when there is no file, a parse error when the file holds no
\* certificate, and else a pool of exactly the file's certificates, so that
\* a pool it made of a file and returns without error is never empty
C11_CertBundle ==
    cfg.called =>
        LET b == cfg.bundle
            f == CAFileAt(cfg.path, caFile) IN
        /\ cfg.path = "" =>
              /\ b.read = {}
              /\ b.err = cfg.sys.err
              /\ b.pool = cfg.sys.pool
        /\ cfg.path # "" =>
              /\ b.read = {cfg.path}
              /\ ~f.exists => b.err = TrustBundleReadError /\ b.pool.nil
              /\ f.exists /\ CertBlocks(cfg.path) = {} =>
                    b.err = TrustBundleParseError /\ b.pool.nil
              /\ f.exists /\ CertBlocks(cfg.path) # {} =>
                    /\ b.err = NoErr
                    /\ ~b.pool.nil /\ ~b.pool.system
                    /\ b.pool.certs = CertBlocks(cfg.path)
              /\ b.err = NoErr => ~b.pool.nil /\ b.pool.certs # {}

\* certBundle was called on a file that exists and holds no certificate
C11_Witness ==
    /\ cfg.called /\ cfg.path = "ca.pem"
    /\ caFile.exists /\ caFile.blocks = <<"junk">>
    /\ cfg.bundle.err = TrustBundleParseError

\* C13: buildConfig returns certBundle's error and no policy when certBundle
\* fails, and a policy on certBundle's pool and no error when it succeeds
C13_BuildConfigError ==
    cfg.called =>
        LET b == certBundle(cfg.path, caFile, cfg.sys) IN
        /\ cfg.err = b.err
        /\ b.err # NoErr => cfg.config.nil
        /\ b.err = NoErr => ~cfg.config.nil /\ cfg.config.RootCAs = b.pool
        /\ cfg.config.nil <=> cfg.err # NoErr

\* buildConfig failed on a path where no file is
C13_Witness ==
    /\ cfg.called /\ cfg.path = "missing.pem"
    /\ cfg.err = TrustBundleReadError /\ cfg.config.nil

\* the stages of reload in the order of its statements
Stages == <<"read", "topem", "keypair", "leaf", "publish">>
IsPrefix(s, t) == Len(s) <= Len(t) /\ \A i \in 1..Len(s) : s[i] = t[i]
\* the stages a call has behind it when it stands at pc
StagesBefore(pc) ==
    IF pc = "read" THEN 0 ELSE IF pc = "topem" THEN 1
    ELSE IF pc = "keypair" THEN 2 ELSE IF pc = "leaf" THEN 3 ELSE 4
\* for a call that read bytes b (NoFile when the read failed): the number of
\* stages up to and including the first that fails, and its error, with the
\* key pair stage failing on a key that is not the leaf's and the leaf
\* stage on a leaf that does not parse
OutcomeAsStated(b) ==
    IF ~b.exists THEN [stages |-> 1, err |-> FileReadError]
    ELSE IF ~(b.wellformed /\ b.pass = keystorePass)
         THEN [stages |-> 2, err |-> ContainerDecodeError]
    ELSE IF b.key # KeyOf(b.cert)
         THEN [stages |-> 3, err |-> KeyPairMismatchError]
    ELSE IF ~Parseable(b.cert)
         THEN [stages |-> 4, err |-> LeafParseError]
    ELSE [stages |-> 5, err |-> NoErr]
\* the same with the key pair stage failing also, and first, on a leaf that
\* does not parse, with the parse error
Outcome(b) ==
    IF ~b.exists THEN [stages |-> 1, err |-> FileReadError]
    ELSE IF ~(b.wellformed /\ b.pass = keystorePass)
         THEN [stages |-> 2, err |-> ContainerDecodeError]
    ELSE IF ~Parseable(b.cert)
         THEN [stages |-> 3, err |-> LeafParseError]
    ELSE IF b.key # KeyOf(b.cert)
         THEN [stages |-> 3, err |-> KeyPairMismatchError]
    ELSE [stages |-> 5, err |-> NoErr]
\* how often the candidate of goroutine p's call was published
Publishes(p) ==
    Cardinality({ i \in 1..Len(published) :
                    rl[p].certAndKey # 0 /\ published[i] = rl[p].certAndKey })

\* what C12 says of every call but the error it ends with
StageDiscipline(p) ==
    /\ IsPrefix(rl[p].ran, Stages)
    /\ Publishes(p) <= 1
    /\ InFlight(p) =>
          /\ Len(rl[p].ran) = StagesBefore(rl[p].pc)
          /\ rl[p].err = NoErr
          /\ Publishes(p) = 0
    /\ Over(p) =>
          /\ Publishes(p) = (IF rl[p].ran = Stages THEN 1 ELSE 0)
          /\ rl[p].pubIdx # 0 <=> rl[p].ran = Stages
          /\ rl[p].err = NoErr <=> rl[p].ran = Stages

\* C12 as stated: a reload call runs read, decrypt, key pair, leaf, publish
\* in this order, each at most once; it stops at the first stage that fails
\* and returns that stage's error, which is FileReadError, ContainerDecodeError,
\* KeyPairMismatchError, LeafParseError for the four stages in turn; it
\* publishes at most once, as its last step, and only when the four earlier
\* stages succeeded
C12_StageOrderAsStated ==
    \A p \in Procs :
        rl[p].gen # 0 =>
            /\ StageDiscipline(p)
            /\ Over(p) =>
                  /\ Len(rl[p].ran) = OutcomeAsStated(rl[p].keystoreBytes).stages
                  /\ rl[p].err = OutcomeAsStated(rl[p].keystoreBytes).err

\* C12 amended: the same order, stop at the first failing stage and publish
\* rule; the error is FileReadError from the read, ContainerDecodeError from
\* the decrypt, and from the key pair stage KeyPairMismatchError or, for a
\* leaf that does not parse, the parse error; the leaf stage, which parses
\* the same bytes again, never fails
C12_StageOrder ==
    \A p \in Procs :
        rl[p].gen # 0 =>
            /\ StageDiscipline(p)
            /\ Over(p) =>
                  /\ Len(rl[p].ran) = Outcome(rl[p].keystoreBytes).stages
                  /\ rl[p].err = Outcome(rl[p].keystoreBytes).err
                  /\ Len(rl[p].ran) >= 4 => rl[p].ran = Stages

\* a call that replaced a bundle is over next to one that read a leaf that
\* does not parse and stopped at the key pair stage with the parse error
C12_Witness ==
    \E p \in Procs, q \in Procs :
        /\ Over(p) /\ rl[p].err = LeafParseError
        /\ ~Parseable(rl[p].keystoreBytes.cert)
        /\ rl[p].ran = <<"read", "topem", "keypair">>
        /\ Over(q) /\ rl[q].ran = Stages

\* file contents that decrypt under the store's passphrase to a certificate
\* with its own key and a leaf that parses
StructurallyValid(b) ==
    /\ b.exists /\ b.wellformed /\ b.pass = keystorePass
    /\ b.key = KeyOf(b.cert)
    /\ Parseable(b.cert)

\* C14: a reload call that read a structurally valid container returns nil
\* and publishes its bundle whatever the leaf's validity period and subject;
\* while its publish is the last one, the slot and getCertificate give the
\* new leaf
C14_PermissiveReload ==
    \A p \in Procs :
        Over(p) /\ StructurallyValid(rl[p].keystoreBytes) =>
            /\ rl[p].err = NoErr
            /\ rl[p].pubIdx # 0
            /\ heap[rl[p].certAndKey].Leaf.Subject = Subject(rl[p].keystoreBytes.cert)
            /\ heap[rl[p].certAndKey].Leaf.Expired = Expired(rl[p].keystoreBytes.cert)
            /\ rl[p].pubIdx = Len(published) =>
                  /\ cached = rl[p].certAndKey
                  /\ Deref(heap, getCertificateResult(cached).ptr).Leaf.Subject
                        = Subject(rl[p].keystoreBytes.cert)

\* a reload replaced the bundle of server.example.com by an expired one of
\* server2.example.com, and a getCertificate call after its return got it
C14_Witness ==
    \E p \in Procs, r \in Readers :
        /\ rl[p].pc = "idle" /\ rl[p].gen # 0 /\ rl[p].err = NoErr
        /\ rl[p].startBundle.Leaf.Subject = "server.example.com"
        /\ heap[rl[p].certAndKey].Leaf.Expired
        /\ cached = rl[p].certAndKey
        /\ res[r].called /\ rl[p].gen \in res[r].returned
        /\ res[r].ptr = cached
        /\ res[r].seen.Leaf.Subject = "server2.example.com"

\* C15: no step takes the slot from set back to unset, whatever reload and
\* getCertificate calls follow, and every getCertificate call on a store
\* that buildCertificate returned gets a certificate that is not nil
C15_SetIsMonotone ==
    [][ /\ cached # 0 => cached' # 0
        /\ \A r \in Readers :
              res'[r].called /\ res'[r].handle = "built" => res'[r].ptr # 0 ]_vars

\* on a store from buildCertificate a later reload found no file and
\* returned, and a getCertificate call after that got a certificate
C15_Witness ==
    \E p \in Procs, r \in Readers :
        /\ handle = "built"
        /\ rl[p].pc = "idle" /\ rl[p].gen > 1 /\ rl[p].err = FileReadError
        /\ res[r].called /\ res[r].handle = "built"
        /\ rl[p].gen \in res[r].returned
        /\ res[r].ptr # 0 /\ res[r].ptr = cached

\* C16: frame conditions of the store.  No step changes keystorePath or
\* keystorePass; a step of a reload call leaves the keystore file and every
\* reader's result alone; a getCertificate call changes neither the slot,
\* the heap, the file, the reload calls nor the configuration; the struct a
\* published pointer refers to is never written again, so the bundle a
\* reader got keeps the field values it had at the read
C16_Frame ==
    [][ /\ keystorePath' = keystorePath
        /\ keystorePass' = keystorePass
        /\ rl' # rl =>
              /\ keystoreFile' = keystoreFile
              /\ res' = res
              /\ cfg' = cfg
        /\ res' # res =>
              /\ cached' = cached
              /\ heap' = heap
              /\ keystoreFile' = keystoreFile
              /\ rl' = rl
              /\ cfg' = cfg
        /\ \A i \in 1..Len(published) :
              heap'[published[i]] = heap[published[i]]
        /\ \A r \in Readers :
              res'[r].called /\ res'[r].ptr # 0
                  => heap'[res'[r].ptr] = res'[r].seen ]_vars

\* a reader holds a bundle that a later reload has replaced in the slot by
\* a bundle for another certificate, and still sees the values it read
C16_Witness ==
    \E r \in Readers :
        /\ res[r].called /\ res[r].ptr # 0
        /\ cached # 0 /\ cached # res[r].ptr
        /\ PubIdx(cached) > PubIdx(res[r].ptr)
        /\ heap[cached] # heap[res[r].ptr]
        /\ heap[res[r].ptr] = res[r].seen

\* bundle b is what lines 59-77 make of the container contents c
DecodeOf(c, b) ==
    /\ c.exists /\ c.wellformed /\ c.pass = keystorePass
    /\ c.key = KeyOf(c.cert) /\ Parseable(c.cert)
    /\ b.Certificate = <<c.cert>> /\ b.PrivateKey = c.key
    /\ b.Leaf # NilLeaf /\ b.Leaf.Raw = c.cert
    /\ b.Leaf.Subject = Subject(c.cert)

\* every published address holds the decode of the contents its call read;
\* once the most recent reload call, which ran with no other call in
\* progress at any time, has returned nil, the slot holds that call's
\* bundle, the decode of the contents that call read
C17_Latest ==
    /\ \A i \in 1..Len(published) :
          DecodeOf(decoded[published[i]], heap[published[i]])
    /\ \A p \in Procs :
          /\ rl[p].pc = "idle" /\ rl[p].gen # 0 /\ rl[p].err = NoErr
          /\ rl[p].gen = calls /\ ~rl[p].overlapped
          => /\ cached = rl[p].certAndKey
             /\ decoded[cached] = rl[p].keystoreBytes
             /\ DecodeOf(rl[p].keystoreBytes, heap[cached])

\* C17: the bytes a reload call works on are the contents the keystore file
\* held at the step of its read and stay the call's bytes to its end; the
\* bundle it publishes is the decode of these bytes; and when reload calls
\* do not overlap, after a successful reload has returned the slot holds the
\* decode of the contents that most recent call read
C17_PublishedFromRead ==
    [][ /\ \A p \in Procs :
              /\ rl[p].pc = "read" /\ rl'[p].pc = "topem"
                    => rl'[p].keystoreBytes = keystoreFile
              /\ rl[p].pc \in {"topem", "keypair", "leaf", "publish", "done"}
                    => rl'[p].keystoreBytes = rl[p].keystoreBytes
              /\ rl[p].pc = "publish" /\ rl'[p].pc = "done"
                    => /\ cached' = rl[p].certAndKey
                       /\ DecodeOf(rl[p].keystoreBytes, heap'[cached'])
        /\ C17_Latest' ]_vars

\* two reload calls overlapped and the file changed between their reads:
\* both returned nil, and the slot holds the bundle of the call that read
\* the older contents, not the bundle of the call that read what the file
\* holds now
C17_Witness ==
    \E p, q \in Procs :
        /\ p # q
        /\ rl[p].pc = "idle" /\ rl[p].gen # 0 /\ rl[p].err = NoErr
        /\ rl[q].pc = "idle" /\ rl[q].gen # 0 /\ rl[q].err = NoErr
        /\ rl[p].overlapped \/ rl[q].overlapped
        /\ rl[p].pubIdx > rl[q].pubIdx
        /\ cached = rl[p].certAndKey
        /\ writes > 0
        /\ rl[q].keystoreBytes = keystoreFile
        /\ rl[p].keystoreBytes # keystoreFile
        /\ DecodeOf(rl[p].keystoreBytes, heap[cached])
        /\ ~DecodeOf(keystoreFile, heap[cached])

====
